---- MODULE Spec2Model ----
(***************************************************************************)
(* The MySQL migration planner of atlas (sql/mysql/migrate.go).            *)
(*                                                                         *)
(* PlanChanges turns a list of schema changes into a migrate.Plan: an      *)
(* ordered list of statements, each with an optional reverse statement.    *)
(* A SQL text is modelled as the sequence of the fragments the statement   *)
(* builder was given (phrases, quoted identifiers, commas, parentheses),   *)
(* so the empty string is the empty sequence.  Schema objects are records  *)
(* named after the Go structs; a pointer to a table is the table's name,   *)
(* and the one mutable field of a table, Attrs, lives in tattrs.           *)
(***************************************************************************)
EXTENDS Integers, Sequences, FiniteSets, TLC

\* Longest top-level change list given to PlanChanges (specification Spec).
MaxTop == 2

\* Longest ModifyTable.Changes list (specification SpecModify).
MaxChanges == 3

(***************************************************************************)
(* Generic helpers over sequences.                                         *)
(***************************************************************************)
Range(s) == {s[i] : i \in 1..Len(s)}

SeqsUpTo(S, n) == UNION {[1..k -> S] : k \in 0..n}

RECURSIVE Flatten(_)
Flatten(ss) == IF ss = <<>> THEN <<>> ELSE Head(ss) \o Flatten(Tail(ss))

(***************************************************************************)
(* Texts (comments) are sequences of characters, so that quoting can look  *)
(* at them; Str turns one into the fragment written to a builder.          *)
(***************************************************************************)
RECURSIVE Str(_)
Str(cs) == IF cs = <<>> THEN "" ELSE Head(cs) \o Str(Tail(cs))

\* sqlx.IsQuoted(s, q...): s starts and ends with the same one of the quote characters.
IsQuoted(s, qs) ==
    /\ Len(s) >= 2
    /\ \E q \in qs : s[1] = q /\ s[Len(s)] = q

\* strconv.Quote on the characters of the model: double quotes around the
\* text, with every double quote and backslash of it escaped.
RECURSIVE Escape(_)
Escape(s) ==
    IF s = <<>> THEN <<>>
    ELSE (IF Head(s) \in {"\"", "\\"} THEN <<"\\", Head(s)>> ELSE <<Head(s)>>)
         \o Escape(Tail(s))

strconvQuote(s) == <<"\"">> \o Escape(s) \o <<"\"">>

quote(s) == IF IsQuoted(s, {"\"", "'"}) THEN s ELSE strconvQuote(s)

\* strconv.FormatInt(v, 10) for v >= 0.
Digit == <<"0", "1", "2", "3", "4", "5", "6", "7", "8", "9">>

RECURSIVE FormatInt(_)
FormatInt(v) ==
    IF v < 10 THEN Digit[v + 1] ELSE FormatInt(v \div 10) \o Digit[(v % 10) + 1]

(***************************************************************************)
(* sqlx.Builder: an append-only list of fragments.                         *)
(***************************************************************************)
P(b, phrases) == b \o phrases

\* Builder.QuoteChar. MySQL quotes identifiers with a backquote, a character
\* a TLA+ string cannot hold; the model writes it as "^".
QuoteChar == "^"

Ident(b, name) == Append(b, QuoteChar \o name \o QuoteChar)

Comma(b) == Append(b, ",")

\* Builder.Wrap around the fragments an inner builder wrote.
Wrap(b, inner) == (b \o <<"(">>) \o inner \o <<")">>

\* Builder.MapComma over fragment lists already rendered, one per item.
RECURSIVE JoinComma(_)
JoinComma(items) ==
    IF items = <<>> THEN <<>>
    ELSE IF Len(items) = 1 THEN items[1]
    ELSE items[1] \o <<",">> \o JoinComma(Tail(items))

\* Builder.Table for a table that is not attached to a schema.
Table(b, t) == Ident(b, t.Name)

Build(phrase) == P(<<>>, <<phrase>>)

\* sqlx.Has(attrs, &T{}): some element of attrs has the type T.
Has(attrs, type) == \E i \in 1..Len(attrs) : attrs[i].T = type

\* The first element of attrs of the given type (what sqlx.Has copies out).
FirstOf(attrs, type) ==
    attrs[CHOOSE i \in 1..Len(attrs) :
            /\ attrs[i].T = type
            /\ \A j \in 1..(i - 1) : attrs[j].T # type]

(***************************************************************************)
(* Rendering of schema elements (state.column, indexParts, fks, attr,      *)
(* tableAttr, collation).  An attribute is a record whose T names its Go   *)
(* type: AutoIncrement{V}, Charset{S}, Collation{S}, Comment{Text},        *)
(* OnUpdate{A}; any other T is an attribute the planner does not know.     *)
(***************************************************************************)

\* conn.collate: the default collation the connection reported.
collate == "utf8mb4_general_ci"

\* mustFormat(c.Type.Type): the type's name.
mustFormat(type) == type.T

\* state.attr for one attribute.
attr(b, a) ==
    CASE a.T = "Collation" -> P(b, <<"COLLATE", a.S>>)
      [] a.T = "Comment" -> P(b, <<"COMMENT", Str(quote(a.Text))>>)
      [] OTHER -> b

RECURSIVE attrs(_, _)
attrs(b, as) == IF as = <<>> THEN b ELSE attrs(attr(b, Head(as)), Tail(as))

\* state.collation(t) for a table without a schema; ta is t.Attrs.
collation(ta) == IF Has(ta, "Collation") THEN FirstOf(ta, "Collation").S ELSE collate

\* The loop of state.column over c.Attrs. st = [b, ta]: the builder and t.Attrs,
\* to which an AutoIncrement with a value is appended when the table has none.
RECURSIVE columnAttrs(_, _)
columnAttrs(st, as) ==
    IF as = <<>> THEN st
    ELSE LET a == Head(as) IN
         columnAttrs(
            CASE a.T = "Collation" ->
                    [st EXCEPT !.b = IF collation(st.ta) # a.S
                                     THEN P(st.b, <<"COLLATE", a.S>>) ELSE st.b]
              [] a.T = "OnUpdate" -> [st EXCEPT !.b = P(st.b, <<"ON UPDATE", a.A>>)]
              [] a.T = "AutoIncrement" ->
                    [b |-> P(st.b, <<"AUTO_INCREMENT">>),
                     ta |-> IF a.V # 0 /\ ~Has(st.ta, "AutoIncrement")
                            THEN Append(st.ta, a) ELSE st.ta]
              [] OTHER -> [st EXCEPT !.b = attr(st.b, a)],
            Tail(as))

\* strings.ToLower on the characters of the model.
UpperCase ==
    <<"A", "B", "C", "D", "E", "F", "G", "H", "I", "J", "K", "L", "M",
      "N", "O", "P", "Q", "R", "S", "T", "U", "V", "W", "X", "Y", "Z">>

LowerCase ==
    <<"a", "b", "c", "d", "e", "f", "g", "h", "i", "j", "k", "l", "m",
      "n", "o", "p", "q", "r", "s", "t", "u", "v", "w", "x", "y", "z">>

ToLower(s) ==
    [i \in 1..Len(s) |->
        IF \E k \in 1..26 : UpperCase[k] = s[i]
        THEN LowerCase[CHOOSE k \in 1..26 : UpperCase[k] = s[i]]
        ELSE s[i]]

\* strings.HasPrefix and strings.HasSuffix.
HasPrefix(s, prefix) == Len(s) >= Len(prefix) /\ SubSeq(s, 1, Len(prefix)) = prefix

HasSuffix(s, suffix) ==
    Len(s) >= Len(suffix) /\ SubSeq(s, Len(s) - Len(suffix) + 1, Len(s)) = suffix

\* currentTS: the token of the current timestamp, in lower case.
currentTS ==
    <<"c", "u", "r", "r", "e", "n", "t", "_", "t", "i", "m", "e", "s", "t", "a", "m", "p">>

\* isHex(v): the value looks like a hexadecimal literal, 0x and digits.
isHex(v) == Len(v) > 2 /\ ToLower(SubSeq(v, 1, 2)) = <<"0", "x">>

\* hasNumericDefault(t): the defaults of the type are numbers.
hasNumericDefault(type) == type.T \in {"bit", "int", "bigint", "decimal", "float"}

\* t.(*schema.TimeType).
IsTimeType(type) == type.T \in {"timestamp", "datetime", "date", "time"}

\* columnDefault quoting a raw expression in parentheses like any other text.
columnDefault_quotesParens(b, c) ==
    IF c.Default = <<>> THEN b
    ELSE LET x == c.Default[1] IN
         CASE x.K = "Literal" ->
                 P(b, <<"DEFAULT",
                        Str(IF ~hasNumericDefault(c.Type) /\ ~isHex(x.V) THEN quote(x.V) ELSE x.V)>>)
           [] x.K = "RawExpr" ->
                 P(b, <<"DEFAULT",
                        Str(IF isHex(x.V) \/ hasNumericDefault(c.Type) THEN x.V
                            ELSE IF ~IsTimeType(c.Type) \/ ~HasPrefix(ToLower(x.V), currentTS)
                            THEN quote(x.V)
                            ELSE x.V)>>)
           [] OTHER -> b

\* state.columnDefault(b, c). c.Default is <<>> for nil, or one expression:
\* a Literal or a RawExpr (K) with its text V as characters.
columnDefault(b, c) ==
    IF c.Default = <<>> THEN b
    ELSE LET x == c.Default[1] IN
         CASE x.K = "Literal" ->
                 P(b, <<"DEFAULT",
                        Str(IF ~hasNumericDefault(c.Type) /\ ~isHex(x.V) THEN quote(x.V) ELSE x.V)>>)
           [] x.K = "RawExpr" ->
                 P(b, <<"DEFAULT",
                        Str(IF \/ isHex(x.V)
                               \/ hasNumericDefault(c.Type)
                               \/ (HasPrefix(x.V, <<"(">>) /\ HasSuffix(x.V, <<")">>))
                            THEN x.V
                            ELSE IF ~IsTimeType(c.Type) \/ ~HasPrefix(ToLower(x.V), currentTS)
                            THEN quote(x.V)
                            ELSE x.V)>>)
           [] OTHER -> b

\* state.column(b, t, c), with ta = t.Attrs; gives [b, ta]. The columns of the
\* model have no JSON type, so the JSON_VALID check writes nothing.
column(b, ta, c) ==
    LET b1 == P(Ident(b, c.Name), <<mustFormat(c.Type)>>)
        b2 == IF ~c.Null THEN P(b1, <<"NOT">>) ELSE b1
        b3 == columnDefault(P(b2, <<"NULL">>), c)
    IN columnAttrs([b |-> b3, ta |-> ta], c.Attrs)

\* One index part: the column's name or the raw expression, and DESC.
indexPart(part) ==
    (IF part.C # <<>> THEN <<QuoteChar \o part.C[1] \o QuoteChar>>
     ELSE IF part.X # <<>> THEN <<part.X[1]>> ELSE <<>>)
    \o Flatten([i \in 1..Len(part.Attrs) |->
                  IF part.Attrs[i].T = "Collation" /\ part.Attrs[i].S = "D"
                  THEN <<"DESC">> ELSE <<>>])

indexParts(b, parts) ==
    Wrap(b, JoinComma([i \in 1..Len(parts) |-> indexPart(parts[i])]))

\* state.fks for one foreign key.
fk(b, f) ==
    LET b1 == IF f.Symbol # "" THEN Ident(P(b, <<"CONSTRAINT">>), f.Symbol) ELSE b
        b2 == Wrap(P(b1, <<"FOREIGN KEY">>),
                   JoinComma([i \in 1..Len(f.Columns) |-> Ident(<<>>, f.Columns[i])]))
        b3 == Wrap(Ident(P(b2, <<"REFERENCES">>), f.RefTable),
                   JoinComma([i \in 1..Len(f.RefColumns) |-> Ident(<<>>, f.RefColumns[i])]))
        b4 == IF f.OnUpdate # "" THEN P(b3, <<"ON UPDATE", f.OnUpdate>>) ELSE b3
    IN IF f.OnDelete # "" THEN P(b4, <<"ON DELETE", f.OnDelete>>) ELSE b4

fks(b, fs) == b \o JoinComma([i \in 1..Len(fs) |-> fk(<<>>, fs[i])])

\* state.tableAttr(b, attrs...): [b, err]; err = "" is a nil error. The first
\* AutoIncrement without a value ends the loop with an error.
MissingValue == "missing value for table option AUTO_INCREMENT"

RECURSIVE tableAttr(_, _)
tableAttr(b, as) ==
    IF as = <<>> THEN [b |-> b, err |-> ""]
    ELSE LET a == Head(as) IN
         CASE a.T = "AutoIncrement" ->
                 IF a.V = 0 THEN [b |-> b, err |-> MissingValue]
                 ELSE tableAttr(P(b, <<"AUTO_INCREMENT", FormatInt(a.V)>>), Tail(as))
           [] a.T = "Charset" -> tableAttr(P(b, <<"CHARACTER SET", a.S>>), Tail(as))
           [] a.T = "Collation" -> tableAttr(P(b, <<"COLLATE", a.S>>), Tail(as))
           [] a.T = "Comment" ->
                 tableAttr(P(b, <<"COMMENT", Str(quote(a.Text))>>), Tail(as))
           [] OTHER -> tableAttr(b, Tail(as))

(***************************************************************************)
(* skipAutoChanges.  A Go slice is a view of a backing array: arr is the   *)
(* array under modify.Changes (which the caller still holds, at its full   *)
(* length) and len the length of the local slice "changes".  The range     *)
(* loop runs over the indexes of the slice as it was on entry and reads    *)
(* each element from the array when it gets there; a removal shifts the    *)
(* tail of the local slice one place down inside that same array.          *)
(***************************************************************************)

\* The names of the columns that some DropColumn of the list drops.
dropC(changes) ==
    {changes[i].C.Name : i \in {j \in 1..Len(changes) : changes[j].kind = "DropColumn"}}

\* The inner loop: every part of the index is a column, and a dropped one.
allPartsDropped(c, dropped) ==
    \A k \in 1..Len(c.I.Parts) :
        c.I.Parts[k].C # <<>> /\ c.I.Parts[k].C[1] \in dropped

\* changes = append(changes[:i], changes[i+1:]...) at the 1-based index i:
\* changes[i+1:] is out of range when i is past the end of the slice.
removeAt(st, i) ==
    IF i > st.len THEN [st EXCEPT !.panic = TRUE]
    ELSE [st EXCEPT
            !.arr = [k \in 1..Len(st.arr) |->
                        IF k >= i /\ k < st.len THEN st.arr[k + 1] ELSE st.arr[k]],
            !.len = st.len - 1]

\* One iteration of the search loop.
skipStep(st, i, dropped) ==
    LET c == st.arr[i] IN
    IF c.kind # "DropIndex" THEN st
    ELSE IF ~allPartsDropped(c, dropped) THEN st
    ELSE removeAt(st, i)

RECURSIVE skipLoop(_, _, _)
skipLoop(st, i, dropped) ==
    IF i > Len(st.arr) \/ st.panic THEN st
    ELSE skipLoop(skipStep(st, i, dropped), i + 1, dropped)

\* [arr, len, panic]: the array as the call leaves it, the length of the slice
\* it returns, and whether it panicked (slice bounds out of range) instead.
skipAutoChanges(changes) ==
    skipLoop([arr |-> changes, len |-> Len(changes), panic |-> FALSE], 1, dropC(changes))

(***************************************************************************)
(* modifyTable: the changes are put in two lists, changes[0] and           *)
(* changes[1] in the code, buckets[1] and buckets[2] here.                 *)
(***************************************************************************)

\* Change.Is(c): the mask has one of the bits of c. A mask is a set of bits.
Is(mask, bits) == mask \cap bits # {}

\* assign dropping the index of a modified foreign key whatever has changed.
assign_alwaysDropsIndex(t, change) ==
    CASE change.kind = "DropIndex" ->
            [b0 |-> <<change>>, b1 |-> <<>>, err |-> ""]
      [] change.kind = "ModifyForeignKey" ->
            [b0 |-> <<[kind |-> "DropForeignKey", F |-> change.From],
                      [kind |-> "DropIndex",
                       I |-> [Name |-> change.From.Symbol, Table |-> t.Name,
                              Unique |-> FALSE, Parts |-> <<>>, Attrs |-> <<>>]]>>,
             b1 |-> <<[kind |-> "AddForeignKey", F |-> change.To]>>,
             err |-> ""]
      [] change.kind = "ModifyIndex" ->
            [b0 |-> <<[kind |-> "DropIndex", I |-> change.From]>>,
             b1 |-> <<[kind |-> "AddIndex", I |-> change.To]>>,
             err |-> ""]
      [] change.kind = "DropAttr" ->
            [b0 |-> <<>>, b1 |-> <<>>, err |-> "unsupported change type: DropAttr"]
      [] OTHER ->
            [b0 |-> <<>>, b1 |-> <<change>>, err |-> ""]

\* What the switch of modifyTable appends for one change: [b0, b1, err].
assign(t, change) ==
    CASE change.kind = "DropIndex" ->
            [b0 |-> <<change>>, b1 |-> <<>>, err |-> ""]
      [] change.kind = "ModifyForeignKey" ->
            [b0 |-> <<[kind |-> "DropForeignKey", F |-> change.From]>>
                    \o (IF Is(change.Change, {"ChangeRefTable", "ChangeRefColumn"})
                        THEN <<[kind |-> "DropIndex",
                                I |-> [Name |-> change.From.Symbol, Table |-> t.Name,
                                       Unique |-> FALSE, Parts |-> <<>>, Attrs |-> <<>>]]>>
                        ELSE <<>>),
             b1 |-> <<[kind |-> "AddForeignKey", F |-> change.To]>>,
             err |-> ""]
      [] change.kind = "ModifyIndex" ->
            [b0 |-> <<[kind |-> "DropIndex", I |-> change.From]>>,
             b1 |-> <<[kind |-> "AddIndex", I |-> change.To]>>,
             err |-> ""]
      [] change.kind = "DropAttr" ->
            [b0 |-> <<>>, b1 |-> <<>>, err |-> "unsupported change type: DropAttr"]
      [] OTHER ->
            [b0 |-> <<>>, b1 |-> <<change>>, err |-> ""]

\* The first loop of modifyTable over the filtered changes: [buckets, err].
RECURSIVE bucketLoop(_, _, _)
bucketLoop(t, changes, acc) ==
    IF changes = <<>> THEN acc
    ELSE LET a == assign(t, Head(changes)) IN
         IF a.err # "" THEN [acc EXCEPT !.err = a.err]
         ELSE bucketLoop(t, Tail(changes),
                         [acc EXCEPT !.buckets = <<acc.buckets[1] \o a.b0,
                                                   acc.buckets[2] \o a.b1>>])

assignBuckets(t, changes) ==
    bucketLoop(t, changes, [buckets |-> <<(<<>>), (<<>>)>>, err |-> ""])

(***************************************************************************)
(* alterTable: one ALTER TABLE statement for a list of changes, and its    *)
(* reverse.  The state of the loop is [b, reverse, reversible, errors,     *)
(* ta]: the two builders, the flag, the error texts and t.Attrs.           *)
(***************************************************************************)

\* The body of the switch of alterTable for one change. A change of a kind
\* that has no case writes nothing and changes nothing.
alterClause(st, change) ==
    CASE change.kind = "AddColumn" ->
            LET r == column(P(st.b, <<"ADD COLUMN">>), st.ta, change.C) IN
            [st EXCEPT !.b = r.b, !.ta = r.ta,
                       !.reverse = Ident(P(st.reverse, <<"DROP COLUMN">>), change.C.Name)]
      [] change.kind = "ModifyColumn" ->
            LET r == column(P(st.b, <<"MODIFY COLUMN">>), st.ta, change.To)
                q == column(P(st.reverse, <<"MODIFY COLUMN">>), r.ta, change.From)
            IN [st EXCEPT !.b = r.b, !.reverse = q.b, !.ta = q.ta]
      [] change.kind = "DropColumn" ->
            [st EXCEPT !.b = Ident(P(st.b, <<"DROP COLUMN">>), change.C.Name),
                       !.reversible = FALSE]
      [] change.kind = "AddIndex" ->
            LET b1 == P(st.b, <<"ADD">>)
                b2 == IF change.I.Unique THEN P(b1, <<"UNIQUE">>) ELSE b1
                b3 == indexParts(Ident(P(b2, <<"INDEX">>), change.I.Name), change.I.Parts)
            IN [st EXCEPT !.b = attrs(b3, change.I.Attrs),
                          !.reverse = Ident(P(st.reverse, <<"DROP INDEX">>), change.I.Name)]
      [] change.kind = "DropIndex" ->
            [st EXCEPT !.b = Ident(P(st.b, <<"DROP INDEX">>), change.I.Name),
                       !.reversible = FALSE]
      [] change.kind = "AddForeignKey" ->
            [st EXCEPT !.b = fks(P(st.b, <<"ADD">>), <<change.F>>),
                       !.reverse = Ident(P(st.reverse, <<"DROP FOREIGN KEY">>),
                                         change.F.Symbol)]
      [] change.kind = "DropForeignKey" ->
            [st EXCEPT !.b = Ident(P(st.b, <<"DROP FOREIGN KEY">>), change.F.Symbol),
                       !.reversible = FALSE]
      [] change.kind = "AddAttr" ->
            LET r == tableAttr(st.b, <<change.A>>) IN
            [st EXCEPT !.b = r.b,
                       !.errors = IF r.err # "" THEN Append(@, "add attribute: " \o r.err)
                                  ELSE @,
                       !.reversible = FALSE]
      [] change.kind = "ModifyAttr" ->
            LET r == tableAttr(st.b, <<change.To>>)
                q == tableAttr(st.reverse, <<change.From>>)
                e1 == IF r.err # "" THEN <<"modify attribute: " \o r.err>> ELSE <<>>
                e2 == IF q.err # "" THEN <<"reverse modify attribute: " \o q.err>>
                      ELSE <<>>
            IN [st EXCEPT !.b = r.b, !.reverse = q.b, !.errors = (@ \o e1) \o e2]
      [] OTHER -> st

\* b.MapComma(changes, ...): a comma before every item but the first.
RECURSIVE alterLoop(_, _, _)
alterLoop(st, changes, i) ==
    IF i > Len(changes) THEN st
    ELSE alterLoop(
            alterClause(IF i > 1 THEN [st EXCEPT !.b = Comma(st.b)] ELSE st, changes[i]),
            changes, i + 1)

\* strings.Join(errors, ", ").
RECURSIVE Join(_, _)
Join(ss, sep) ==
    IF ss = <<>> THEN ""
    ELSE IF Len(ss) = 1 THEN ss[1]
    ELSE ss[1] \o sep \o Join(Tail(ss), sep)

\* The Reverse of the change alterTable appends.
alterReverse(st) == IF st.reversible THEN st.reverse ELSE <<>>

\* alterResult appending the statement of the clauses that did render, next
\* to the error it returns.
alterResult_keepsRest(t, changes, st) ==
    [err |-> IF Len(st.errors) > 0 THEN "alter table: " \o Join(st.errors, ", ") ELSE "",
     appended |-> <<[Cmd |-> st.b,
                     Source |-> [kind |-> "ModifyTable", T |-> t, Changes |-> changes],
                     Comment |-> <<"modify %q table", t.Name>>,
                     Reverse |-> alterReverse(st)]>>,
     ta |-> st.ta]

\* What alterTable does once the clauses are written: the error it returns,
\* or the change it appends.
alterResult(t, changes, st) ==
    IF Len(st.errors) > 0
    THEN [err |-> "alter table: " \o Join(st.errors, ", "), appended |-> <<>>, ta |-> st.ta]
    ELSE [err |-> "",
          appended |-> <<[Cmd |-> st.b,
                          Source |-> [kind |-> "ModifyTable", T |-> t, Changes |-> changes],
                          Comment |-> <<"modify %q table", t.Name>>,
                          Reverse |-> alterReverse(st)]>>,
          ta |-> st.ta]

\* alterTable(t, changes) with ta = t.Attrs: [err, appended, ta]. The Attrs
\* keep what the columns added to them when the call fails, too.
alterTable(t, changes, ta) ==
    LET b0 == Table(Build("ALTER TABLE"), t) IN
    alterResult(t, changes,
                alterLoop([b |-> b0, reverse |-> b0, reversible |-> TRUE,
                           errors |-> <<>>, ta |-> ta], changes, 1))

\* alterIfAny without the test of the length.
alterIfAny_always(t, changes, ta) == alterTable(t, changes, ta)

\* The body of the second loop of modifyTable: alterTable for a list that
\* is not empty, nothing for an empty one.
alterIfAny(t, changes, ta) ==
    IF Len(changes) > 0 THEN alterTable(t, changes, ta)
    ELSE [err |-> "", appended |-> <<>>, ta |-> ta]

(***************************************************************************)
(* addTable, dropTable and topLevel.                                       *)
(***************************************************************************)

\* b.MapComma(add.T.Columns, ...) of addTable: st = [b, ta].
RECURSIVE addColumns(_, _, _)
addColumns(st, cols, i) ==
    IF i > Len(cols) THEN st
    ELSE addColumns(column(IF i > 1 THEN Comma(st.b) ELSE st.b, st.ta, cols[i]),
                    cols, i + 1)

\* One index of CREATE TABLE.
tableIndex(idx) ==
    LET b1 == IF idx.Unique THEN <<"UNIQUE">> ELSE <<>>
    IN attrs(indexParts(Ident(P(b1, <<"INDEX">>), idx.Name), idx.Parts), idx.Attrs)

\* What b.Wrap of addTable writes between the parentheses: [b, ta].
addTableBody(T, ta) ==
    LET c == addColumns([b |-> <<>>, ta |-> ta], T.Columns, 1)
        b1 == IF T.PrimaryKey # <<>>
              THEN attrs(indexParts(P(Comma(c.b), <<"PRIMARY KEY">>),
                                    T.PrimaryKey[1].Parts),
                         T.PrimaryKey[1].Attrs)
              ELSE c.b
        b2 == IF Len(T.Indexes) > 0 THEN Comma(b1) ELSE b1
        b3 == b2 \o JoinComma([i \in 1..Len(T.Indexes) |-> tableIndex(T.Indexes[i])])
        b4 == IF Len(T.ForeignKeys) > 0 THEN fks(Comma(b3), T.ForeignKeys) ELSE b3
    IN [b |-> b4, ta |-> c.ta]

\* addTable(add) with ta = add.T.Attrs: [err, appended, ta]. The table
\* options are written from t.Attrs as the columns left it.
addTable(add, ta) ==
    LET b0 == Table(Build("CREATE TABLE"), add.T)
        b1 == IF Has(add.Extra, "IfNotExists") THEN P(b0, <<"IF NOT EXISTS">>) ELSE b0
        body == addTableBody(add.T, ta)
        r == tableAttr(Wrap(b1, body.b), body.ta)
    IN IF r.err # "" THEN [err |-> r.err, appended |-> <<>>, ta |-> body.ta]
       ELSE [err |-> "",
             appended |-> <<[Cmd |-> r.b,
                             Source |-> add,
                             Comment |-> <<"create %q table", add.T.Name>>,
                             Reverse |-> Table(Build("DROP TABLE"), add.T)]>>,
             ta |-> body.ta]

\* dropTable(drop): the change it appends.
dropTable(drop) ==
    LET b0 == Table(Build("DROP TABLE"), drop.T) IN
    [Cmd |-> IF Has(drop.Extra, "IfExists") THEN P(b0, <<"IF EXISTS">>) ELSE b0,
     Source |-> drop,
     Comment |-> <<"drop %q table", drop.T.Name>>,
     Reverse |-> <<>>]

\* The change topLevel appends for an AddSchema.
addSchema(c) ==
    LET b0 == Ident(Build("CREATE DATABASE"), c.S.Name)
        b1 == IF Has(c.Extra, "IfNotExists") THEN P(b0, <<"IF NOT EXISTS">>) ELSE b0
        b2 == IF Has(c.S.Attrs, "Charset")
              THEN P(b1, <<"CHARACTER SET", FirstOf(c.S.Attrs, "Charset").S>>) ELSE b1
        b3 == IF Has(c.S.Attrs, "Collation")
              THEN P(b2, <<"COLLATE", FirstOf(c.S.Attrs, "Collation").S>>) ELSE b2
    IN [Cmd |-> b3,
        Source |-> c,
        Comment |-> <<"add new schema named %q", c.S.Name>>,
        Reverse |-> Ident(Build("DROP DATABASE"), c.S.Name)]

\* The change topLevel appends for a DropSchema.
dropSchema(c) ==
    LET b0 == Ident(Build("DROP DATABASE"), c.S.Name) IN
    [Cmd |-> IF Has(c.Extra, "IfExists") THEN P(b0, <<"IF EXISTS">>) ELSE b0,
     Source |-> c,
     Comment |-> <<"drop schema named %q", c.S.Name>>,
     Reverse |-> <<>>]

\* topLevelLoop putting every other change in front of planned.
RECURSIVE topLevelLoop_prepends(_, _, _)
topLevelLoop_prepends(changes, i, acc) ==
    IF i > Len(changes) THEN acc
    ELSE topLevelLoop_prepends(changes, i + 1,
            CASE changes[i].kind = "AddSchema" ->
                    [acc EXCEPT !.Changes = Append(@, addSchema(changes[i]))]
              [] changes[i].kind = "DropSchema" ->
                    [acc EXCEPT !.Changes = Append(@, dropSchema(changes[i]))]
              [] OTHER -> [acc EXCEPT !.planned = <<i>> \o @])

\* topLevel(changes): [Changes, planned]. The schema changes are appended to
\* s.Changes; planned holds the others, each as its index in the input (the
\* planner passes the same objects on, not copies).
RECURSIVE topLevelLoop(_, _, _)
topLevelLoop(changes, i, acc) ==
    IF i > Len(changes) THEN acc
    ELSE topLevelLoop(changes, i + 1,
            CASE changes[i].kind = "AddSchema" ->
                    [acc EXCEPT !.Changes = Append(@, addSchema(changes[i]))]
              [] changes[i].kind = "DropSchema" ->
                    [acc EXCEPT !.Changes = Append(@, dropSchema(changes[i]))]
              [] OTHER -> [acc EXCEPT !.planned = Append(@, i)])

topLevel(changes) == topLevelLoop(changes, 1, [Changes |-> <<>>, planned |-> <<>>])

\* sqlx.DetachCycles(planned) for changes whose tables do not reference one
\* another: there is no cycle to detach and no dependency to order by.
DetachCycles(planned) == planned

\* reversibleLoop with the flag assigned from every change, so that the last
\* change alone decides it.
RECURSIVE reversibleLoop_lastWins(_, _)
reversibleLoop_lastWins(cs, rev) ==
    IF cs = <<>> THEN rev
    ELSE reversibleLoop_lastWins(Tail(cs), Head(cs).Reverse # <<>>)

\* The loop of PlanChanges over s.Changes: Reversible starts TRUE and is
\* cleared by every change without a Reverse.
RECURSIVE reversibleLoop(_, _)
reversibleLoop(cs, rev) ==
    IF cs = <<>> THEN rev
    ELSE reversibleLoop(Tail(cs), IF Head(cs).Reverse = <<>> THEN FALSE ELSE rev)

(***************************************************************************)
(* The schema elements and changes the inputs are drawn from.              *)
(***************************************************************************)
AutoIncrement(v) == [T |-> "AutoIncrement", V |-> v]

Charset(v) == [T |-> "Charset", S |-> v]

Comment(text) == [T |-> "Comment", Text |-> text]

Col(name, type, null, as) ==
    [Name |-> name, Type |-> [T |-> type], Null |-> null, Attrs |-> as, Default |-> <<>>]

ColumnPart(name) == [C |-> <<name>>, X |-> <<>>, Attrs |-> <<>>]

ExprPart(x) == [C |-> <<>>, X |-> <<x>>, Attrs |-> <<>>]

Index(table, name, unique, parts) ==
    [Name |-> name, Table |-> table, Unique |-> unique, Parts |-> parts, Attrs |-> <<>>]

ForeignKey(symbol, cols, reftable, refcols) ==
    [Symbol |-> symbol, Columns |-> cols, RefTable |-> reftable, RefColumns |-> refcols,
     OnUpdate |-> "", OnDelete |-> "CASCADE"]

TableObj(name, cols, pk) ==
    [Name |-> name, Columns |-> cols, PrimaryKey |-> pk, Indexes |-> <<>>,
     ForeignKeys |-> <<>>]

\* The table every ModifyTable of the model modifies, and the table every
\* AddTable creates and every DropTable drops.
TableT == TableObj("t", <<>>, <<>>)

TableU ==
    TableObj("u", <<Col("id", "int", FALSE, <<AutoIncrement(5)>>)>>,
             <<Index("u", "PRI", FALSE, <<ColumnPart("id")>>)>>)

\* The changes a ModifyTable.Changes list is made of.
ModifyClauses ==
    { [kind |-> "DropColumn", C |-> Col("a", "int", FALSE, <<>>)],
      [kind |-> "DropIndex", I |-> Index("t", "i1", FALSE, <<ColumnPart("a")>>)],
      [kind |-> "DropIndex", I |-> Index("t", "i2", TRUE, <<ColumnPart("a")>>)],
      [kind |-> "DropIndex", I |-> Index("t", "i3", FALSE, <<ColumnPart("a"), ExprPart("(lower(b))")>>)],
      [kind |-> "AddColumn", C |-> Col("c", "bigint", FALSE, <<AutoIncrement(5)>>)],
      [kind |-> "ModifyColumn", From |-> Col("b", "int", TRUE, <<>>),
                                To |-> Col("b", "bigint", FALSE, <<>>),
                                Change |-> {"ChangeType", "ChangeNull"}],
      [kind |-> "AddIndex", I |-> Index("t", "i4", TRUE, <<ColumnPart("b")>>)],
      [kind |-> "ModifyIndex", From |-> Index("t", "i5", FALSE, <<ColumnPart("a")>>),
                               To |-> Index("t", "i5", TRUE, <<ColumnPart("a")>>),
                               Change |-> {"ChangeUnique"}],
      [kind |-> "AddForeignKey", F |-> ForeignKey("fk2", <<"b">>, "u", <<"id">>)],
      [kind |-> "DropForeignKey", F |-> ForeignKey("fk1", <<"b">>, "u", <<"id">>)],
      [kind |-> "ModifyForeignKey", From |-> ForeignKey("fk3", <<"a">>, "u", <<"id">>),
                                    To |-> ForeignKey("fk3", <<"a">>, "v", <<"id">>),
                                    Change |-> {"ChangeRefTable"}],
      [kind |-> "ModifyForeignKey", From |-> ForeignKey("fk4", <<"a">>, "u", <<"id">>),
                                    To |-> [ForeignKey("fk4", <<"a">>, "u", <<"id">>)
                                                EXCEPT !.OnUpdate = "CASCADE"],
                                    Change |-> {"ChangeUpdateAction"}],
      [kind |-> "AddAttr", A |-> AutoIncrement(0)],
      [kind |-> "AddAttr", A |-> Charset("utf8")],
      [kind |-> "ModifyAttr", From |-> AutoIncrement(0), To |-> AutoIncrement(0)],
      [kind |-> "ModifyAttr", From |-> Comment(<<"h", "i">>), To |-> Comment(<<"'", "y", "'">>)],
      [kind |-> "DropAttr", A |-> Charset("utf8")],
      [kind |-> "AddTable", T |-> TableU, Extra |-> <<>>] }

ModifyTable(changes) == [kind |-> "ModifyTable", T |-> TableT, Changes |-> changes]

\* The ModifyTable changes of the top-level lists of Spec.
TopModifyLists ==
    LET dropColumn == [kind |-> "DropColumn", C |-> Col("a", "int", FALSE, <<>>)]
        dropIndex == [kind |-> "DropIndex", I |-> Index("t", "i1", FALSE, <<ColumnPart("a")>>)]
        addColumn == [kind |-> "AddColumn", C |-> Col("c", "bigint", FALSE, <<AutoIncrement(5)>>)]
        addAttr == [kind |-> "AddAttr", A |-> AutoIncrement(0)]
        modifyAttr == [kind |-> "ModifyAttr", From |-> AutoIncrement(0),
                                              To |-> AutoIncrement(0)]
        dropAttr == [kind |-> "DropAttr", A |-> Charset("utf8")]
        addTable_ == [kind |-> "AddTable", T |-> TableU, Extra |-> <<>>]
    IN { <<>>, <<dropColumn>>, <<addColumn>>, <<addAttr>>, <<dropAttr>>, <<addTable_>>,
         <<dropIndex, dropColumn>>, <<dropIndex, addColumn>>, <<dropIndex, addAttr>>,
         <<addAttr, modifyAttr>> }

\* The changes a top-level list is made of; the last one is of a kind that
\* plan has no case for.
TopChanges ==
    { [kind |-> "AddSchema", S |-> [Name |-> "s", Attrs |-> <<Charset("utf8")>>],
                             Extra |-> <<[T |-> "IfNotExists"]>>],
      [kind |-> "DropSchema", S |-> [Name |-> "s", Attrs |-> <<>>], Extra |-> <<>>],
      [kind |-> "AddTable", T |-> TableU, Extra |-> <<>>],
      [kind |-> "DropTable", T |-> TableU, Extra |-> <<[T |-> "IfExists"]>>],
      [kind |-> "AddColumn", C |-> Col("a", "int", FALSE, <<>>)] }
    \cup {ModifyTable(cs) : cs \in TopModifyLists}

\* The Attrs the two tables may start with.
TableAttrs ==
    { [t \in {"t", "u"} |-> IF t = "t" THEN x ELSE y] :
        x \in {<<>>, <<AutoIncrement(7)>>},
        y \in {<<>>, <<AutoIncrement(0)>>, <<Charset("utf8"), Comment(<<"h", "i">>)>>} }

(***************************************************************************)
(* One call of PlanChanges.                                                *)
(*   given     the change list and the tables' Attrs as the caller built   *)
(*             them, before the call                                       *)
(*   input     the change list as it is now                                *)
(*   tattrs    Attrs of every table as they are now, by the table's name   *)
(*   pc        "call": not called yet; "plan": in the loop of plan, at     *)
(*             planned[idx]; "alter": in the second loop of modifyTable,   *)
(*             at buckets[bi]; "returned"; "panicked"                      *)
(*   planned   what plan iterates over, as indexes in input                *)
(*   Changes   s.Changes                                                   *)
(*   buckets   the local lists changes[0], changes[1] of modifyTable       *)
(*   ret       what PlanChanges returned: plan is <<>> for nil             *)
(*   other     a second call of PlanChanges on the same planApply, running *)
(*             at the same time: its own state (pc is "idle" when there is *)
(*             no such call), the list it was given, and whether that list *)
(*             is the very list of the first call (shared) or one of its   *)
(*             own; the tables of the two calls are the same objects       *)
(***************************************************************************)
VARIABLES given, input, tattrs, pc, planned, idx, Changes, buckets, bi, ret, other

vars == <<given, input, tattrs, pc, planned, idx, Changes, buckets, bi, ret, other>>

NoReturn == [plan |-> <<>>, err |-> ""]

\* The state of a call that has not started: s of PlanChanges and the locals
\* of plan and modifyTable.
NewCall(pc0) ==
    [pc |-> pc0, planned |-> <<>>, idx |-> 1, Changes |-> <<>>,
     buckets |-> <<(<<>>), (<<>>)>>, bi |-> 1, ret |-> NoReturn]

NoOther == [call |-> NewCall("idle"), shared |-> FALSE, given |-> <<>>, input |-> <<>>]

InitWith(changes, ta) ==
    /\ given = [changes |-> changes, tattrs |-> ta]
    /\ input = changes
    /\ tattrs = ta
    /\ pc = "call"
    /\ planned = <<>>
    /\ idx = 1
    /\ Changes = <<>>
    /\ buckets = <<(<<>>), (<<>>)>>
    /\ bi = 1
    /\ ret = NoReturn
    /\ other = NoOther

\* Any top-level list of at most MaxTop changes.
Init ==
    \E changes \in SeqsUpTo(TopChanges, MaxTop), ta \in TableAttrs :
        InitWith(changes, ta)

\* One ModifyTable with any list of at most MaxChanges changes.
InitModify ==
    \E cs \in SeqsUpTo(ModifyClauses, MaxChanges) :
        InitWith(<<ModifyTable(cs)>>, [t \in {"t", "u"} |-> <<>>])

\* return nil, err
ReturnErr(err) ==
    /\ pc' = "returned"
    /\ ret' = [plan |-> <<>>, err |-> err]

\* PlanChanges up to the loop of plan: the state is made, topLevel emits the
\* schema changes and DetachCycles orders the others.
PlanChanges ==
    /\ pc = "call"
    /\ LET r == topLevel(input) IN
        /\ Changes' = r.Changes
        /\ planned' = DetachCycles(r.planned)
    /\ pc' = "plan"
    /\ idx' = 1
    /\ UNCHANGED <<given, input, tattrs, buckets, bi, ret, other>>

\* case *schema.AddTable of plan.
plan_addTable ==
    /\ pc = "plan" /\ idx <= Len(planned)
    /\ input[planned[idx]].kind = "AddTable"
    /\ LET c == input[planned[idx]]
           r == addTable(c, tattrs[c.T.Name])
       IN /\ tattrs' = [tattrs EXCEPT ![c.T.Name] = r.ta]
          /\ Changes' = Changes \o r.appended
          /\ IF r.err # "" THEN ReturnErr(r.err) /\ idx' = idx
             ELSE idx' = idx + 1 /\ UNCHANGED <<pc, ret>>
    /\ UNCHANGED <<given, input, planned, buckets, bi, other>>

\* case *schema.DropTable of plan.
plan_dropTable ==
    /\ pc = "plan" /\ idx <= Len(planned)
    /\ input[planned[idx]].kind = "DropTable"
    /\ Changes' = Append(Changes, dropTable(input[planned[idx]]))
    /\ idx' = idx + 1
    /\ UNCHANGED <<given, input, tattrs, pc, planned, buckets, bi, ret, other>>

\* case *schema.ModifyTable of plan, up to the second loop of modifyTable:
\* skipAutoChanges works inside the array of modify.Changes, then the
\* changes it returns are put in the two lists.
plan_modifyTable ==
    /\ pc = "plan" /\ idx <= Len(planned)
    /\ input[planned[idx]].kind = "ModifyTable"
    /\ LET c == input[planned[idx]]
           sk == skipAutoChanges(c.Changes)
           r == assignBuckets(c.T, SubSeq(sk.arr, 1, sk.len))
       IN /\ input' = [input EXCEPT ![planned[idx]].Changes = sk.arr]
          /\ IF sk.panic
             THEN pc' = "panicked" /\ UNCHANGED <<buckets, bi, ret>>
             ELSE IF r.err # ""
             THEN ReturnErr(r.err) /\ UNCHANGED <<buckets, bi>>
             ELSE /\ buckets' = r.buckets
                  /\ bi' = 1
                  /\ pc' = "alter"
                  /\ UNCHANGED ret
    /\ UNCHANGED <<given, tattrs, planned, idx, Changes, other>>

\* One iteration of the second loop of modifyTable: alterTable for a list
\* that is not empty. After the last one modifyTable returns to plan.
modifyTable_alterTable ==
    /\ pc = "alter"
    /\ LET t == input[planned[idx]].T
           r == alterIfAny(t, buckets[bi], tattrs[t.Name])
       IN /\ tattrs' = [tattrs EXCEPT ![t.Name] = r.ta]
          /\ Changes' = Changes \o r.appended
          /\ IF r.err # ""
             THEN ReturnErr(r.err) /\ UNCHANGED <<bi, idx>>
             ELSE IF bi < 2
             THEN bi' = bi + 1 /\ UNCHANGED <<pc, idx, ret>>
             ELSE pc' = "plan" /\ idx' = idx + 1 /\ UNCHANGED <<bi, ret>>
    /\ UNCHANGED <<given, input, planned, buckets, other>>

\* default of plan: a change of any other kind.
plan_unsupported ==
    /\ pc = "plan" /\ idx <= Len(planned)
    /\ input[planned[idx]].kind \notin {"AddTable", "DropTable", "ModifyTable"}
    /\ ReturnErr("unsupported change " \o input[planned[idx]].kind)
    /\ UNCHANGED <<given, input, tattrs, planned, idx, Changes, buckets, bi, other>>

\* The end of PlanChanges after plan returned nil.
PlanChanges_return ==
    /\ pc = "plan" /\ idx > Len(planned)
    /\ pc' = "returned"
    /\ ret' = [plan |-> <<[Name |-> "plan",
                           Reversible |-> reversibleLoop(Changes, TRUE),
                           Transactional |-> FALSE,
                           Changes |-> Changes]>>,
               err |-> ""]
    /\ UNCHANGED <<given, input, tattrs, planned, idx, Changes, buckets, bi, other>>

Next ==
    \/ PlanChanges
    \/ plan_addTable
    \/ plan_dropTable
    \/ plan_modifyTable
    \/ modifyTable_alterTable
    \/ plan_unsupported
    \/ PlanChanges_return

Spec == Init /\ [][Next]_vars

\* The steps a call takes when its input is one ModifyTable.
NextModify ==
    \/ PlanChanges
    \/ plan_modifyTable
    \/ modifyTable_alterTable
    \/ PlanChanges_return

SpecModify == InitModify /\ [][NextModify]_vars

(***************************************************************************)
(* Two calls at the same time.  Every call has a state of its own (s, and  *)
(* the locals of plan and modifyTable); the change lists and the tables    *)
(* are the caller's objects, which a second call may be given as well.     *)
(* callStep is the next step of a call as a function of its state and of   *)
(* the objects it works on.                                                *)
(***************************************************************************)

\* return nil, err in the call c.
fail(c, err) == [c EXCEPT !.pc = "returned", !.ret = [plan |-> <<>>, err |-> err]]

\* case *schema.AddTable of plan, with r what addTable gave.
addTableStep(c, in, ta, ch, r) ==
    [call |-> IF r.err # "" THEN fail(c, r.err)
              ELSE [c EXCEPT !.Changes = @ \o r.appended, !.idx = @ + 1],
     input |-> in,
     tattrs |-> [ta EXCEPT ![ch.T.Name] = r.ta]]

\* case *schema.ModifyTable of plan up to the second loop of modifyTable, with
\* sk what skipAutoChanges gave and r the two lists.
modifyTableStep(c, in, ta, sk, r) ==
    [call |-> IF sk.panic THEN [c EXCEPT !.pc = "panicked"]
              ELSE IF r.err # "" THEN fail(c, r.err)
              ELSE [c EXCEPT !.buckets = r.buckets, !.bi = 1, !.pc = "alter"],
     input |-> [in EXCEPT ![c.planned[c.idx]].Changes = sk.arr],
     tattrs |-> ta]

\* The lists modifyTable makes of what skipAutoChanges gave.
bucketsOf(t, sk) == assignBuckets(t, SubSeq(sk.arr, 1, sk.len))

modifyTableSkipped(c, in, ta, ch, sk) == modifyTableStep(c, in, ta, sk, bucketsOf(ch.T, sk))

\* The step of plan for the change ch = in[c.planned[c.idx]].
planStep(c, in, ta, ch) ==
    CASE ch.kind = "AddTable" -> addTableStep(c, in, ta, ch, addTable(ch, ta[ch.T.Name]))
      [] ch.kind = "DropTable" ->
            [call |-> [c EXCEPT !.Changes = Append(@, dropTable(ch)), !.idx = @ + 1],
             input |-> in, tattrs |-> ta]
      [] ch.kind = "ModifyTable" ->
            modifyTableSkipped(c, in, ta, ch, skipAutoChanges(ch.Changes))
      [] OTHER ->
            [call |-> fail(c, "unsupported change " \o ch.kind), input |-> in, tattrs |-> ta]

\* One iteration of the second loop of modifyTable, with r what alterTable
\* gave for the list (nothing for an empty list).
alterStepWith(c, in, ta, t, r) ==
    [call |-> IF r.err # "" THEN fail(c, r.err)
              ELSE IF c.bi < 2
              THEN [c EXCEPT !.Changes = @ \o r.appended, !.bi = @ + 1]
              ELSE [c EXCEPT !.Changes = @ \o r.appended, !.pc = "plan", !.idx = @ + 1],
     input |-> in,
     tattrs |-> [ta EXCEPT ![t.Name] = r.ta]]

alterStepOn(c, in, ta, t) == alterStepWith(c, in, ta, t, alterIfAny(t, c.buckets[c.bi], ta[t.Name]))

alterStep(c, in, ta) == alterStepOn(c, in, ta, in[c.planned[c.idx]].T)

\* The next step of the call c on the list in and the tables' Attrs ta:
\* [call, input, tattrs] after it.
callStep(c, in, ta) ==
    CASE c.pc = "call" ->
            LET r == topLevel(in) IN
            [call |-> [c EXCEPT !.Changes = r.Changes,
                                !.planned = DetachCycles(r.planned),
                                !.pc = "plan", !.idx = 1],
             input |-> in, tattrs |-> ta]
      [] c.pc = "plan" /\ c.idx <= Len(c.planned) ->
            planStep(c, in, ta, in[c.planned[c.idx]])
      [] c.pc = "plan" /\ c.idx > Len(c.planned) ->
            [call |-> [c EXCEPT !.pc = "returned",
                                !.ret = [plan |-> <<[Name |-> "plan",
                                                     Reversible |-> reversibleLoop(c.Changes, TRUE),
                                                     Transactional |-> FALSE,
                                                     Changes |-> c.Changes]>>,
                                         err |-> ""]],
             input |-> in, tattrs |-> ta]
      [] c.pc = "alter" -> alterStep(c, in, ta)
      [] OTHER -> [call |-> c, input |-> in, tattrs |-> ta]

\* The first call's state as one value.
ThisCall ==
    [pc |-> pc, planned |-> planned, idx |-> idx, Changes |-> Changes,
     buckets |-> buckets, bi |-> bi, ret |-> ret]

\* The list the second call works on.
OtherInput == IF other.shared THEN input ELSE other.input

\* What the next step of the second call gives.
OtherResult == callStep(other.call, OtherInput, tattrs)

\* A step of the second call.
OtherStep ==
    \E r \in {OtherResult} :
        /\ other' = [other EXCEPT !.call = r.call,
                                  !.input = IF other.shared THEN @ ELSE r.input]
        /\ input' = IF other.shared THEN r.input ELSE input
        /\ tattrs' = r.tattrs
        /\ UNCHANGED <<given, pc, planned, idx, Changes, buckets, bi, ret>>

\* The second call up to the loop of plan.
other_PlanChanges == other.call.pc = "call" /\ OtherStep

\* One iteration of the loop of plan in the second call, or its return.
other_plan == other.call.pc = "plan" /\ OtherStep

\* One iteration of the second loop of modifyTable in the second call.
other_alterTable == other.call.pc = "alter" /\ OtherStep

\* The lists two calls at the same time are given.
ConcurrentLists ==
    LET dropColumn == [kind |-> "DropColumn", C |-> Col("a", "int", FALSE, <<>>)]
        dropIndex == [kind |-> "DropIndex", I |-> Index("t", "i1", FALSE, <<ColumnPart("a")>>)]
        addColumn == [kind |-> "AddColumn", C |-> Col("c", "bigint", FALSE, <<AutoIncrement(5)>>)]
    IN { <<ModifyTable(<<dropIndex, dropColumn>>)>>,
         <<ModifyTable(<<addColumn>>)>>,
         <<[kind |-> "AddTable", T |-> TableU, Extra |-> <<>>],
           [kind |-> "DropTable", T |-> TableU, Extra |-> <<>>]>>,
         <<[kind |-> "AddSchema", S |-> [Name |-> "s", Attrs |-> <<>>], Extra |-> <<>>],
           [kind |-> "AddColumn", C |-> Col("a", "int", FALSE, <<>>)]>> }

\* Two calls: the second is given the list of the first, or a list of its
\* own; the tables the lists name are the same objects.
InitConcurrent ==
    \E changes \in ConcurrentLists, own \in ConcurrentLists \cup {<<>>}, shared \in BOOLEAN :
        /\ shared <=> own = <<>>
        /\ given = [changes |-> changes, tattrs |-> [t \in {"t", "u"} |-> <<>>]]
        /\ input = changes
        /\ tattrs = given.tattrs
        /\ pc = "call"
        /\ planned = <<>>
        /\ idx = 1
        /\ Changes = <<>>
        /\ buckets = <<(<<>>), (<<>>)>>
        /\ bi = 1
        /\ ret = NoReturn
        /\ other = [call |-> NewCall("call"), shared |-> shared,
                    given |-> IF shared THEN changes ELSE own,
                    input |-> IF shared THEN <<>> ELSE own]

NextConcurrent ==
    \/ PlanChanges
    \/ plan_addTable
    \/ plan_dropTable
    \/ plan_modifyTable
    \/ modifyTable_alterTable
    \/ plan_unsupported
    \/ PlanChanges_return
    \/ other_PlanChanges
    \/ other_plan
    \/ other_alterTable

SpecConcurrent == InitConcurrent /\ [][NextConcurrent]_vars

(***************************************************************************)
(* One column with a default, added to the table t: every type class, both *)
(* kinds of default, and texts of every shape columnDefault tells apart.   *)
(***************************************************************************)

\* A numeric type, a text type and a time type.
DefaultTypes == {"int", "varchar", "timestamp"}

DefaultKinds == {"Literal", "RawExpr"}

\* 5, active, 'ok', "ok", 0x1F, 0XAB, 0x, (UUID()), (a, CURRENT_TIMESTAMP,
\* current_timestamp, Current_Timestamp(6), now(), a"b and the empty text.
DefaultValues ==
    {
      <<"5">>,
      <<"a", "c", "t", "i", "v", "e">>,
      <<"'", "o", "k", "'">>,
      <<"\"", "o", "k", "\"">>,
      <<"0", "x", "1", "F">>,
      <<"0", "X", "A", "B">>,
      <<"0", "x">>,
      <<"(", "U", "U", "I", "D", "(", ")", ")">>,
      <<"(", "a">>,
      <<"C", "U", "R", "R", "E", "N", "T", "_", "T", "I", "M", "E", "S", "T", "A", "M", "P">>,
      <<"c", "u", "r", "r", "e", "n", "t", "_", "t", "i", "m", "e", "s", "t", "a", "m", "p">>,
      <<"C", "u", "r", "r", "e", "n", "t", "_", "T", "i", "m", "e", "s", "t", "a", "m", "p", "(", "6", ")">>,
      <<"n", "o", "w", "(", ")">>,
      <<"a", "\"", "b">>,
      <<>> }

ColumnWithDefault(type, kind, v) ==
    [Col("d", type, TRUE, <<>>) EXCEPT !.Default = <<[K |-> kind, V |-> v]>>]

\* PlanChanges given one ModifyTable that adds one column with a default.
InitDefault ==
    \E type \in DefaultTypes, kind \in DefaultKinds, v \in DefaultValues :
        InitWith(<<ModifyTable(<<[kind |-> "AddColumn",
                                  C |-> ColumnWithDefault(type, kind, v)]>>)>>,
                 [t \in {"t", "u"} |-> <<>>])

SpecDefault == InitDefault /\ [][NextModify]_vars

(***************************************************************************)
(* Properties.  Statements are read back as fragment lists.                *)
(***************************************************************************)
Q(name) == QuoteChar \o name \o QuoteChar

\* The places of cmd where the fragments frag stand one after the other.
Positions(cmd, frag) ==
    {k \in 1..Len(cmd) :
        /\ k + Len(frag) - 1 <= Len(cmd)
        /\ \A j \in 1..Len(frag) : cmd[k + j - 1] = frag[j]}

Contains(cmd, frag) == Positions(cmd, frag) # {}

\* PlanChanges returned a plan.
Planned == pc = "returned" /\ ret.plan # <<>>

\* PlanChanges returned an error.
Failed == pc = "returned" /\ ret.err # ""

\* C1: whenever PlanChanges succeeds, the plan it returns has Reversible = TRUE
\* if and only if every change of the plan has a Reverse that is not empty
\* (so the empty plan is reversible).
C1_ReversibleIffAllReverse ==
    Planned =>
        (ret.plan[1].Reversible <=>
            \A i \in 1..Len(ret.plan[1].Changes) : ret.plan[1].Changes[i].Reverse # <<>>)

\* A returned plan whose first change has no Reverse and whose last has one.
C1_Witness ==
    /\ Planned
    /\ Len(ret.plan[1].Changes) >= 2
    /\ ret.plan[1].Changes[1].Reverse = <<>>
    /\ ret.plan[1].Changes[Len(ret.plan[1].Changes)].Reverse # <<>>
    /\ ~ret.plan[1].Reversible

\* The ModifyTable PlanChanges was given, when it was given one change
\* (SpecModify), as the caller built it.
Mod == given.changes[1]

\* The places <<k, p>> where the fragments frag stand in the k-th statement
\* emitted so far, and the order of places: an earlier statement, or earlier
\* in the same one.
Places(frag) ==
    UNION {{<<k, p>> : p \in Positions(Changes[k].Cmd, frag)} : k \in 1..Len(Changes)}

Before(x, y) == x[1] < y[1] \/ (x[1] = y[1] /\ x[2] < y[2])

\* C2: for every DropIndex of a ModifyTable whose parts are all columns that a
\* DropColumn of the same list drops, no statement emitted for the
\* modification has a DROP INDEX clause for that index.
C2_AutoElision ==
    \A j \in 1..Len(Mod.Changes) :
        (/\ Mod.Changes[j].kind = "DropIndex"
         /\ allPartsDropped(Mod.Changes[j], dropC(Mod.Changes)))
        => Places(<<"DROP INDEX", Q(Mod.Changes[j].I.Name)>>) = {}

\* C3: when a ModifyTable drops a foreign key and adds one of another name,
\* in the plan the DROP FOREIGN KEY clause stands before the ADD clause,
\* whatever the order of the two changes in the input.
C3_DropForeignKeyBeforeAdd ==
    Planned =>
        \A i, j \in 1..Len(Mod.Changes) :
            (/\ Mod.Changes[i].kind = "DropForeignKey"
             /\ Mod.Changes[j].kind = "AddForeignKey"
             /\ Mod.Changes[i].F.Symbol # Mod.Changes[j].F.Symbol)
            => \A x \in Places(<<"DROP FOREIGN KEY", Q(Mod.Changes[i].F.Symbol)>>),
                  y \in Places(<<"ADD", "CONSTRAINT", Q(Mod.Changes[j].F.Symbol)>>) :
                    Before(x, y)

\* The places of the clauses that remove a constraint, drop a column, and add
\* an index or a foreign key.
Removals == Places(<<"DROP INDEX">>) \cup Places(<<"DROP FOREIGN KEY">>)

ColumnDrops == Places(<<"DROP COLUMN">>)

Additions ==
    Places(<<"ADD", "INDEX">>) \cup Places(<<"ADD", "UNIQUE", "INDEX">>)
        \cup Places(<<"ADD", "CONSTRAINT">>)

\* C4: in the statements planned for one ModifyTable every DROP INDEX and
\* DROP FOREIGN KEY clause stands before every DROP COLUMN clause and before
\* every clause that adds an index or a foreign key.
C4_RemovalsFirst ==
    Planned =>
        \A r \in Removals :
            /\ \A d \in ColumnDrops : Before(r, d)
            /\ \A a \in Additions : Before(r, a)

\* The kinds of the changes of the list that the k-th emitted change is the
\* statement of.
SourceKinds(k) ==
    {Changes[k].Source.Changes[i].kind : i \in 1..Len(Changes[k].Source.Changes)}

\* C5: a statement of alterTable for a list with a DropColumn, DropIndex,
\* DropForeignKey or AddAttr has an empty Reverse; its Reverse is not empty
\* only if the list is made of AddColumn, ModifyColumn, AddIndex,
\* AddForeignKey and ModifyAttr alone; and a ModifyTable that only drops
\* columns is planned as one statement without Reverse, in a plan that is
\* not reversible.
C5_BatchReversibility ==
    /\ \A k \in 1..Len(Changes) :
          /\ SourceKinds(k) \cap {"DropColumn", "DropIndex", "DropForeignKey", "AddAttr"} # {}
                => Changes[k].Reverse = <<>>
          /\ Changes[k].Reverse # <<>>
                => SourceKinds(k) \subseteq {"AddColumn", "ModifyColumn", "AddIndex",
                                             "AddForeignKey", "ModifyAttr"}
    /\ (/\ Planned
        /\ Mod.Changes # <<>>
        /\ \A j \in 1..Len(Mod.Changes) : Mod.Changes[j].kind = "DropColumn")
       => /\ Len(ret.plan[1].Changes) = 1
          /\ Contains(ret.plan[1].Changes[1].Cmd, <<"ALTER TABLE", Q("t"), "DROP COLUMN">>)
          /\ ret.plan[1].Changes[1].Reverse = <<>>
          /\ ~ret.plan[1].Reversible

\* The kinds plan and topLevel have a case for, and the kinds of changes of a
\* ModifyTable the planner has a rule for.
TopKinds == {"AddSchema", "DropSchema", "AddTable", "DropTable", "ModifyTable"}

ClauseKinds ==
    {"AddColumn", "ModifyColumn", "DropColumn", "AddIndex", "ModifyIndex", "DropIndex",
     "AddForeignKey", "ModifyForeignKey", "DropForeignKey", "AddAttr", "ModifyAttr"}

\* The list holds a change the planner has no rule for, at the top level or
\* inside a ModifyTable.
HasUnsupported(changes) ==
    \E i \in 1..Len(changes) :
        \/ changes[i].kind \notin TopKinds
        \/ /\ changes[i].kind = "ModifyTable"
           /\ \E j \in 1..Len(changes[i].Changes) :
                 changes[i].Changes[j].kind \notin ClauseKinds

\* C6: when the input holds a change the planner has no rule for, PlanChanges
\* returns an error and no plan.
C6_UnsupportedIsAnError ==
    (pc = "returned" /\ HasUnsupported(given.changes)) => (ret.err # "" /\ ret.plan = <<>>)

\* C8: when PlanChanges has returned, the top-level list and the Changes of
\* every ModifyTable are as the caller built them, and the Attrs of a table
\* are as they were or have one AutoIncrement with a value appended, which
\* they did not have.
C8_InputUnchanged ==
    pc = "returned" =>
        /\ input = given.changes
        /\ \A t \in DOMAIN tattrs :
              \/ tattrs[t] = given.tattrs[t]
              \/ /\ Len(tattrs[t]) = Len(given.tattrs[t]) + 1
                 /\ SubSeq(tattrs[t], 1, Len(given.tattrs[t])) = given.tattrs[t]
                 /\ tattrs[t][Len(tattrs[t])].T = "AutoIncrement"
                 /\ tattrs[t][Len(tattrs[t])].V # 0
                 /\ ~Has(given.tattrs[t], "AutoIncrement")

\* A table attribute tableAttr cannot write.
NoValue(a) == a.T = "AutoIncrement" /\ a.V = 0

\* The error texts a list of changes must give in alterTable, in order.
AttrErrors(changes) ==
    Flatten([i \in 1..Len(changes) |->
        CASE changes[i].kind = "AddAttr" ->
                IF NoValue(changes[i].A) THEN <<"add attribute: " \o MissingValue>> ELSE <<>>
          [] changes[i].kind = "ModifyAttr" ->
                (IF NoValue(changes[i].To)
                 THEN <<"modify attribute: " \o MissingValue>> ELSE <<>>)
                \o (IF NoValue(changes[i].From)
                    THEN <<"reverse modify attribute: " \o MissingValue>> ELSE <<>>)
          [] OTHER -> <<>>])

\* PlanChanges returned the error of an alterTable, of the list buckets[bi].
AlterFailed ==
    /\ Failed
    /\ idx <= Len(planned)
    /\ input[planned[idx]].kind = "ModifyTable"
    /\ ret.err # "unsupported change type: DropAttr"

\* With a plan returned, nothing in the input could make a step fail.
NothingFails ==
    \A i \in 1..Len(given.changes) :
        LET c == given.changes[i] IN
        /\ c.kind \in TopKinds
        /\ c.kind = "ModifyTable" =>
              /\ \A j \in 1..Len(c.Changes) : c.Changes[j].kind # "DropAttr"
              /\ AttrErrors(c.Changes) = <<>>
        /\ c.kind = "AddTable" =>
              \A k \in 1..Len(given.tattrs[c.T.Name]) : ~NoValue(given.tattrs[c.T.Name][k])

C7_State ==
    /\ Failed => ret.plan = <<>>
    /\ Planned => NothingFails
    /\ AlterFailed => ret.err = "alter table: " \o Join(AttrErrors(buckets[bi]), ", ")
    /\ (Failed /\ idx <= Len(planned) /\ input[planned[idx]].kind = "AddTable")
          => ret.err = MissingValue

C7_Step == (ret.err = "" /\ ret'.err # "") => Changes' = Changes

\* C7: a failing step (an unsupported change, a DropAttr, a table attribute
\* without its value in addTable or alterTable) makes PlanChanges return an
\* error and no plan, and a plan is returned only when no step can fail; the
\* step that fails appends no change; the error of alterTable names every
\* attribute of the list that could not be written.
C7_NoPartialSuccess == []C7_State /\ [][C7_Step]_vars

\* An alterTable failed with two or more attribute errors after an earlier
\* change had been appended.
C7_Witness ==
    /\ AlterFailed
    /\ Len(AttrErrors(buckets[bi])) >= 2
    /\ Len(Changes) >= 1

\* The lists of buckets[1..n] that are not empty, in order.
NonEmpty(n) == SelectSeq(SubSeq(buckets, 1, n), LAMBDA b : b # <<>>)

\* How many of the two lists the second loop of modifyTable has been through.
Processed ==
    CASE pc = "alter" -> bi - 1
      [] Failed -> bi - 1
      [] (pc = "plan" /\ idx = 2) \/ Planned -> 2
      [] OTHER -> 0

\* The fragments the clause of a change starts with (after ADD, for an index
\* or a foreign key); none for a change that has no clause.
Lead(change) ==
    CASE change.kind = "AddColumn" -> <<"ADD COLUMN", Q(change.C.Name)>>
      [] change.kind = "ModifyColumn" -> <<"MODIFY COLUMN", Q(change.To.Name)>>
      [] change.kind = "DropColumn" -> <<"DROP COLUMN", Q(change.C.Name)>>
      [] change.kind = "AddIndex" -> <<"INDEX", Q(change.I.Name)>>
      [] change.kind = "DropIndex" -> <<"DROP INDEX", Q(change.I.Name)>>
      [] change.kind = "AddForeignKey" -> <<"CONSTRAINT", Q(change.F.Symbol)>>
      [] change.kind = "DropForeignKey" -> <<"DROP FOREIGN KEY", Q(change.F.Symbol)>>
      [] change.kind = "AddAttr" /\ change.A.T = "Charset" -> <<"CHARACTER SET", change.A.S>>
      [] change.kind = "ModifyAttr" /\ change.To.T = "Comment" -> <<"COMMENT">>
      [] OTHER -> <<>>

\* The clauses of the changes stand in cmd from place p on, in the order of
\* the changes.
RECURSIVE Carries(_, _, _)
Carries(cmd, changes, p) ==
    IF changes = <<>> THEN TRUE
    ELSE LET l == Lead(Head(changes))
             ps == {k \in Positions(cmd, l) : k >= p}
         IN IF l = <<>> THEN Carries(cmd, Tail(changes), p)
            ELSE /\ ps # {}
                 /\ Carries(cmd, Tail(changes),
                            (CHOOSE k \in ps : \A m \in ps : k <= m) + Len(l))

Completed == (pc = "plan" /\ idx = 2) \/ Planned

RefChanged(m) == Is(m.Change, {"ChangeRefTable", "ChangeRefColumn"})

\* What the two lists hold for a ModifyForeignKey or a ModifyIndex m.
Decomposed(m) ==
    IF m.kind = "ModifyForeignKey"
    THEN /\ \E i \in 1..Len(buckets[1]) :
              /\ buckets[1][i] = [kind |-> "DropForeignKey", F |-> m.From]
              /\ RefChanged(m) =>
                    /\ i < Len(buckets[1])
                    /\ buckets[1][i + 1].kind = "DropIndex"
                    /\ buckets[1][i + 1].I.Name = m.From.Symbol
         /\ RefChanged(m) <=>
              \E i \in 1..Len(buckets[1]) :
                  /\ buckets[1][i].kind = "DropIndex"
                  /\ buckets[1][i].I.Name = m.From.Symbol
         /\ [kind |-> "AddForeignKey", F |-> m.To] \in Range(buckets[2])
    ELSE /\ [kind |-> "DropIndex", I |-> m.From] \in Range(buckets[1])
         /\ [kind |-> "AddIndex", I |-> m.To] \in Range(buckets[2])

\* What the two statements hold for a ModifyForeignKey or a ModifyIndex m.
EmittedInTwo(m) ==
    /\ Len(Changes) = 2
    /\ Changes[1].Reverse = <<>>
    /\ IF m.kind = "ModifyForeignKey"
       THEN /\ Contains(Changes[1].Cmd, <<"DROP FOREIGN KEY", Q(m.From.Symbol)>>)
            /\ RefChanged(m) <=>
                 Contains(Changes[1].Cmd, <<"DROP FOREIGN KEY", Q(m.From.Symbol), ",",
                                            "DROP INDEX", Q(m.From.Symbol)>>)
            /\ RefChanged(m) <=> Places(<<"DROP INDEX", Q(m.From.Symbol)>>) # {}
            /\ Contains(Changes[2].Cmd, <<"ADD", "CONSTRAINT", Q(m.To.Symbol), "FOREIGN KEY">>)
            /\ ~Contains(Changes[1].Cmd, <<"CONSTRAINT", Q(m.To.Symbol)>>)
       ELSE /\ Contains(Changes[1].Cmd, <<"DROP INDEX", Q(m.From.Name)>>)
            /\ Contains(Changes[2].Cmd,
                        <<"ADD">> \o (IF m.To.Unique THEN <<"UNIQUE">> ELSE <<>>)
                                 \o <<"INDEX", Q(m.To.Name)>>)
            /\ ~Contains(Changes[2].Cmd, <<"DROP INDEX", Q(m.From.Name)>>)

\* C10: for every ModifyForeignKey of a ModifyTable, changes[0] gets a
\* DropForeignKey of the old key, followed by a DropIndex named after its
\* symbol exactly when the referenced table or column changed, and changes[1]
\* an AddForeignKey of the new key; for every ModifyIndex, changes[0] gets a
\* DropIndex of the old index and changes[1] an AddIndex of the new one. Once
\* modifyTable has returned nil, the modification is two ALTER TABLE
\* statements with these clauses, the first without Reverse.
C10_ModifyIsDecomposed ==
    \A j \in 1..Len(Mod.Changes) :
        Mod.Changes[j].kind \in {"ModifyForeignKey", "ModifyIndex"} =>
            /\ pc = "alter" => Decomposed(Mod.Changes[j])
            /\ Completed => EmittedInTwo(Mod.Changes[j])

\* A plan for a ModifyTable with both a foreign key whose referenced table
\* changed and one whose update action changed.
C10_Witness ==
    /\ Planned
    /\ \E i, j \in 1..Len(Mod.Changes) :
          /\ Mod.Changes[i].kind = "ModifyForeignKey" /\ RefChanged(Mod.Changes[i])
          /\ Mod.Changes[j].kind = "ModifyForeignKey" /\ ~RefChanged(Mod.Changes[j])

(***************************************************************************)
(* Statements read as the server reads them: the clauses of an ALTER       *)
(* TABLE are separated by commas outside parentheses, and each clause      *)
(* changes one element of the table definition.  A definition is a set of  *)
(* <<class, name, body>>.                                                  *)
(***************************************************************************)

\* The clauses of the fragments fs: cut at every comma outside parentheses.
RECURSIVE SplitClauses(_, _, _, _)
SplitClauses(fs, depth, cur, acc) ==
    IF fs = <<>> THEN Append(acc, cur)
    ELSE LET f == Head(fs) IN
         IF f = "," /\ depth = 0 THEN SplitClauses(Tail(fs), depth, <<>>, Append(acc, cur))
         ELSE SplitClauses(Tail(fs),
                           IF f = "(" THEN depth + 1
                           ELSE IF f = ")" THEN depth - 1 ELSE depth,
                           Append(cur, f), acc)

\* The clauses of an ALTER TABLE statement, after ALTER TABLE and the name.
Clauses(stmt) == SplitClauses(SubSeq(stmt, 3, Len(stmt)), 0, <<>>, <<>>)

\* The phrases a clause of ALTER TABLE starts with, and the table options.
ClauseWords ==
    {"ADD COLUMN", "MODIFY COLUMN", "DROP COLUMN", "ADD", "DROP INDEX", "DROP FOREIGN KEY"}

TableOptions == {"AUTO_INCREMENT", "COMMENT", "CHARACTER SET", "COLLATE"}

\* No other clause starts inside the clause c.
OneClause(c) == \A k \in 2..Len(c) : c[k] \notin ClauseWords

Without(def, class, name) == {e \in def : ~(e[1] = class /\ e[2] = name)}

\* The name of the index an ADD [UNIQUE] INDEX clause adds.
IndexName(c) == c[(CHOOSE k \in 1..Len(c) : c[k] = "INDEX") + 1]

\* The definition after one clause: [ok, def]; ok is FALSE for a clause the
\* server cannot read (the statement fails and changes nothing).
ApplyClause(def, c) ==
    LET bad == [ok |-> FALSE, def |-> def]
        rest(n) == SubSeq(c, n, Len(c))
    IN
    IF c = <<>> \/ ~OneClause(c) THEN bad
    ELSE CASE c[1] = "ADD COLUMN" /\ Len(c) >= 3 ->
                [ok |-> TRUE, def |-> def \cup {<<"column", c[2], rest(3)>>}]
           [] c[1] = "MODIFY COLUMN" /\ Len(c) >= 3 ->
                [ok |-> TRUE,
                 def |-> Without(def, "column", c[2]) \cup {<<"column", c[2], rest(3)>>}]
           [] c[1] = "DROP COLUMN" /\ Len(c) = 2 ->
                [ok |-> TRUE, def |-> Without(def, "column", c[2])]
           [] c[1] = "ADD" /\ Len(c) >= 3 /\ c[2] = "CONSTRAINT" ->
                [ok |-> TRUE, def |-> def \cup {<<"foreign key", c[3], rest(4)>>}]
           [] c[1] = "ADD" /\ Len(c) >= 3 /\ c[2] # "CONSTRAINT" /\ "INDEX" \in Range(c) ->
                [ok |-> TRUE, def |-> def \cup {<<"index", IndexName(c), rest(2)>>}]
           [] c[1] = "DROP INDEX" /\ Len(c) = 2 ->
                [ok |-> TRUE, def |-> Without(def, "index", c[2])]
           [] c[1] = "DROP FOREIGN KEY" /\ Len(c) = 2 ->
                [ok |-> TRUE, def |-> Without(def, "foreign key", c[2])]
           [] c[1] \in TableOptions /\ Len(c) = 2 ->
                [ok |-> TRUE,
                 def |-> Without(def, "option", c[1]) \cup {<<"option", c[1], rest(2)>>}]
           [] OTHER -> bad

RECURSIVE ApplyClauses(_, _)
ApplyClauses(r, cs) ==
    IF cs = <<>> \/ ~r.ok THEN r
    ELSE ApplyClauses(ApplyClause(r.def, Head(cs)), Tail(cs))

\* The definition after the statement: unchanged when a clause cannot be read.
Apply(def, stmt) ==
    LET r == ApplyClauses([ok |-> TRUE, def |-> def], Clauses(stmt)) IN
    IF r.ok THEN r.def ELSE def

\* The kinds of change for which alterTable writes a reverse clause.
ReversibleKinds == {"AddColumn", "ModifyColumn", "AddIndex", "AddForeignKey", "ModifyAttr"}

\* The element of the table a change is about.
Target(change) ==
    CASE change.kind = "AddColumn" -> <<"column", Q(change.C.Name)>>
      [] change.kind = "ModifyColumn" -> <<"column", Q(change.From.Name)>>
      [] change.kind = "AddIndex" -> <<"index", Q(change.I.Name)>>
      [] change.kind = "AddForeignKey" -> <<"foreign key", Q(change.F.Symbol)>>
      [] change.kind = "ModifyAttr" -> <<"option", change.From.T>>
      [] OTHER -> <<"", change.kind>>

DistinctTargets(changes) ==
    \A i, j \in 1..Len(changes) : i # j => Target(changes[i]) # Target(changes[j])

\* The clause that undoes a change: drop what it adds, or modify back.
Inverse(change, ta) ==
    CASE change.kind = "AddColumn" -> <<"DROP COLUMN", Q(change.C.Name)>>
      [] change.kind = "ModifyColumn" ->
            <<"MODIFY COLUMN">> \o column(<<>>, ta, change.From).b
      [] change.kind = "AddIndex" -> <<"DROP INDEX", Q(change.I.Name)>>
      [] change.kind = "AddForeignKey" -> <<"DROP FOREIGN KEY", Q(change.F.Symbol)>>
      [] change.kind = "ModifyAttr" -> tableAttr(<<>>, <<change.From>>).b
      [] OTHER -> <<>>

\* The part of the table definition the changes start from: the columns and
\* options that are modified, as they were.
DefBefore(changes, ta) ==
    UNION {ApplyClause({}, Inverse(changes[i], ta)).def :
             i \in {j \in 1..Len(changes) :
                      changes[j].kind \in {"ModifyColumn", "ModifyAttr"}}}

\* The statement Changes[k] is one whose changes all have a reverse clause,
\* each about an element of its own.
AllReversible(k) ==
    /\ Changes[k].Source.kind = "ModifyTable"
    /\ Changes[k].Source.Changes # <<>>
    /\ SourceKinds(k) \subseteq ReversibleKinds
    /\ DistinctTargets(Changes[k].Source.Changes)

\* C11: for every ALTER TABLE emitted for changes that are all reversible
\* (AddColumn, ModifyColumn, AddIndex, AddForeignKey, ModifyAttr), the Reverse
\* has one clause for each change, the inverse of that change, and applying
\* the statement and then its Reverse to the table definition gives the
\* definition back.
C11_RoundTrip ==
    \A k \in 1..Len(Changes) :
        AllReversible(k) =>
            LET src == Changes[k].Source.Changes
                ta == tattrs[Changes[k].Source.T.Name]
                def == DefBefore(src, ta)
            IN /\ Clauses(Changes[k].Reverse) = [i \in 1..Len(src) |-> Inverse(src[i], ta)]
               /\ Apply(Apply(def, Changes[k].Cmd), Changes[k].Reverse) = def

\* A call is over: it returned or it panicked.
Done == {"returned", "panicked"}

\* The call r.call run to its end on objects no other call touches.
RECURSIVE RunAlone(_)
RunAlone(r) ==
    IF r.call.pc \in Done THEN r.call
    ELSE RunAlone(callStep(r.call, r.input, r.tattrs))

\* How a call given the list changes ends when it runs alone: [pc, ret].
Alone(changes, ta) ==
    LET c == RunAlone([call |-> NewCall("call"), input |-> changes, tattrs |-> ta])
    IN [pc |-> c.pc, ret |-> c.ret]

\* A call that is over ended as it ends when run alone on what it was given.
C12_State ==
    /\ pc \in Done => [pc |-> pc, ret |-> ret] = Alone(given.changes, given.tattrs)
    /\ other.call.pc \in Done =>
          [pc |-> other.call.pc, ret |-> other.call.ret] = Alone(other.given, given.tattrs)

\* While both calls are running, no step writes the objects both work on: the
\* tables' Attrs, and the change list when they were given the same one.
C12_Step ==
    (pc \notin Done /\ other.call.pc \notin Done) =>
        /\ tattrs' = tattrs
        /\ other.shared => input' = input

\* C12: with two calls of PlanChanges running at the same time, on lists of
\* their own or on the same list and tables, no call writes what the other
\* reads, and each call returns the plan it returns when it runs alone.
C12_ConcurrentCallsAreIndependent == []C12_State /\ [][C12_Step]_vars

\* The column the ModifyTable of SpecDefault adds, its default and the text
\* written after DEFAULT in the statement planned for it.
DefaultColumn == Mod.Changes[1].C

DefaultExpr == DefaultColumn.Default[1]

DefaultWritten == Changes[1].Cmd[(CHOOSE k \in Positions(Changes[1].Cmd, <<"DEFAULT">>) : TRUE) + 1]

\* The statement with the default is planned.
DefaultPlanned == Len(Changes) = 1 /\ Contains(Changes[1].Cmd, <<"DEFAULT">>)

\* The shapes of a text the quoting rule speaks of.
Parenthesized(v) == Len(v) >= 1 /\ v[1] = "(" /\ v[Len(v)] = ")"

HexLooking(v) == Len(v) > 2 /\ v[1] = "0" /\ v[2] \in {"x", "X"}

AlreadyQuoted(v) == Len(v) >= 2 /\ v[1] = v[Len(v)] /\ v[1] \in {"'", "\""}

NumericTyped == DefaultColumn.Type.T \in {"int"}

TimeTyped == DefaultColumn.Type.T \in {"timestamp"}

IsCurrentTimestamp(v) == ToLower(v) = currentTS

StartsWithCurrentTimestamp(v) ==
    Len(v) >= Len(currentTS) /\ ToLower(SubSeq(v, 1, Len(currentTS))) = currentTS

\* The default is written as it stands, or between quotes.
WrittenAsIs == DefaultWritten = Str(DefaultExpr.V)

WrittenQuoted == DefaultWritten = Str(<<"\"">> \o Escape(DefaultExpr.V) \o <<"\"">>)

\* The rule of the default's quoting, with the test of the current timestamp
\* on a time-typed column given: the default is left as it stands exactly
\* when the rule leaves it unquoted or it is quoted already, and is put
\* between quotes otherwise.
QuotingRule(isCurrent) ==
    DefaultPlanned =>
        LET v == DefaultExpr.V
            unquoted ==
                IF DefaultExpr.K = "Literal" THEN NumericTyped \/ HexLooking(v)
                ELSE \/ HexLooking(v)
                     \/ NumericTyped
                     \/ Parenthesized(v)
                     \/ (TimeTyped /\ isCurrent)
        IN IF unquoted \/ AlreadyQuoted(v) THEN WrittenAsIs
           ELSE WrittenQuoted /\ ~WrittenAsIs

\* C13 as stated: a default on a numeric-typed column and a hexadecimal-looking
\* value are never quoted, every other literal is quoted; a raw expression is
\* left unquoted exactly when it is hex, on a numeric-typed column, in
\* parentheses, or is the current-timestamp token, whatever its case, on a
\* time-typed column; a value already quoted is not quoted again.
C13_Original == QuotingRule(IsCurrentTimestamp(DefaultExpr.V))

\* C13 amended: as stated, but a raw expression on a time-typed column is left
\* unquoted when it starts with the current-timestamp token, whatever its
\* case (CURRENT_TIMESTAMP(6) too), not only when it is the token.
C13_DefaultQuoting == QuotingRule(StartsWithCurrentTimestamp(DefaultExpr.V))

\* A raw expression in parentheses on a text-typed column, planned unquoted.
C13_Witness ==
    /\ DefaultPlanned
    /\ DefaultExpr.K = "RawExpr"
    /\ Parenthesized(DefaultExpr.V)
    /\ ~NumericTyped /\ ~TimeTyped
    /\ WrittenAsIs

SchemaKinds == {"AddSchema", "DropSchema"}

\* The places of the schema changes of a list, and of its other changes, in
\* the order of the list.
SchemaPlaces(changes) ==
    SelectSeq([i \in 1..Len(changes) |-> i], LAMBDA i : changes[i].kind \in SchemaKinds)

OtherPlaces(changes) ==
    SelectSeq([i \in 1..Len(changes) |-> i], LAMBDA i : changes[i].kind \notin SchemaKinds)

\* The k-th statement is the one statement of the schema change c.
SchemaStatement(k, c) ==
    /\ Changes[k].Source = c
    /\ c.kind = "AddSchema" =>
          /\ SubSeq(Changes[k].Cmd, 1, 2) = <<"CREATE DATABASE", Q(c.S.Name)>>
          /\ Changes[k].Reverse = <<"DROP DATABASE", Q(c.S.Name)>>
    /\ c.kind = "DropSchema" =>
          /\ SubSeq(Changes[k].Cmd, 1, 2) = <<"DROP DATABASE", Q(c.S.Name)>>
          /\ Changes[k].Reverse = <<>>

\* C14: once topLevel has run, the statements of the AddSchema and DropSchema
\* changes are the first of s.Changes, one each, in the order of the input,
\* wherever they stood in it (CREATE DATABASE with the reverse DROP DATABASE,
\* DROP DATABASE without one); planned holds all the other changes once each,
\* in the order of the input; and classifying the list again, at any later
\* point of the planning, gives the same statements and the same order.
C14_StablePartition ==
    pc # "call" =>
        LET si == SchemaPlaces(given.changes)
            again == topLevel(input)
        IN /\ planned = OtherPlaces(given.changes)
           /\ Len(Changes) >= Len(si)
           /\ \A k \in 1..Len(si) : SchemaStatement(k, given.changes[si[k]])
           /\ \A k \in (Len(si) + 1)..Len(Changes) : Changes[k].Source.kind \notin SchemaKinds
           /\ again.planned = planned
           /\ again.Changes = SubSeq(Changes, 1, Len(si))

\* A plan of two statements for a list with a table change before a schema
\* change: the schema's statement is the first.
C14_Witness ==
    /\ Planned
    /\ Len(given.changes) = 2
    /\ given.changes[1].kind \notin SchemaKinds
    /\ given.changes[2].kind \in SchemaKinds
    /\ Len(ret.plan[1].Changes) = 2
    /\ ret.plan[1].Changes[1].Source = given.changes[2]

\* a is b with some elements left out.
RECURSIVE IsSubsequence(_, _)
IsSubsequence(a, b) ==
    IF a = <<>> THEN TRUE
    ELSE IF b = <<>> THEN FALSE
    ELSE IF Head(a) = Head(b) THEN IsSubsequence(Tail(a), Tail(b))
    ELSE IsSubsequence(a, Tail(b))

Count(seq, x) == Cardinality({i \in 1..Len(seq) : seq[i] = x})

\* A DropIndex of the list whose parts are all columns the list drops.
Elidable(c, changes) == c.kind = "DropIndex" /\ allPartsDropped(c, dropC(changes))

\* modifyTable has called skipAutoChanges for the ModifyTable of the input.
SkipRan == pc \in {"alter", "returned", "panicked"} \/ (pc = "plan" /\ idx = 2)

\* C15: skipAutoChanges ends without a fault for every list of changes, and
\* what it returns is the list with some changes left out, in which every
\* change that is not an elidable DropIndex is as many times as in the list.
C15_SkipAutoChangesCompletes ==
    SkipRan =>
        /\ pc # "panicked"
        /\ LET sk == skipAutoChanges(Mod.Changes)
               res == SubSeq(sk.arr, 1, sk.len)
           IN /\ IsSubsequence(res, Mod.Changes)
              /\ \A c \in Range(Mod.Changes) :
                    ~Elidable(c, Mod.Changes) => Count(res, c) = Count(Mod.Changes, c)
====
